---- MODULE Spec2Model ----
(***************************************************************************)
(* Model of the Gemini Business registration service.                      *)
(*                                                                         *)
(*   src/core/register_service.py   RegisterService: the task tracker, the *)
(*                                  batch coroutine, one registration      *)
(*                                  attempt in the single worker thread    *)
(*   src/util/gemini_auth_utils.py  GeminiAuthHelper: wait_for_workspace,  *)
(*                                  _recover_from_crash and                *)
(*                                  extract_config_with_retry              *)
(*   src/util/mail_providers.py     get_verification_code of both mailbox  *)
(*                                  providers                              *)
(*                                                                         *)
(* Spec         the service: start_register calls, the event loop running  *)
(*              the batch coroutines, the executor running                 *)
(*              _register_one_sync.                                        *)
(* FairSpec     Spec with the fairness of the event loop and the worker.   *)
(* AttemptSpec  one call of _register_one_sync, statement by statement.    *)
(* WaitSpec     one call of wait_for_workspace against a browser whose     *)
(*              pages crash, load and fail nondeterministically.           *)
(* RecoverSpec  one call of _recover_from_crash, statement by statement.   *)
(* ExtractSpec  one call of extract_config_with_retry.                     *)
(* MailSpec     one call of get_verification_code on either provider.      *)
(* PageSpec     one call of perform_email_verification followed by the     *)
(*              name-entry step of the attempt.                            *)
(* FairFlowSpec the service and every call above, each run to its end      *)
(*              under the fairness of the event loop, the worker and the   *)
(*              interpreter.                                               *)
(***************************************************************************)
EXTENDS Integers, Sequences, FiniteSets, TLC

\* ------------------------------------------------------------------ bounds
\* Number of start_register calls that are accepted in one run.
MaxTasks == 2
\* Sum of the counts of all accepted batches.
MaxAttempts == 3
\* Tabs the browser has had when _recover_from_crash is called.
MaxTabs == 2
\* Mails in one answer of the inbox-listing endpoint.
MaxListing == 2

\* --------------------------------------------------------------- constants
\* ThreadPoolExecutor(max_workers=1)
max_workers == 1
\* Optional[...] = None, for the string-valued fields
None == "None"
\* _current_task_id: Optional[str] = None; task ids are 1, 2, ...
NoTask == 0
\* wait_for_workspace(driver, timeout=30) as _register_one_sync calls it
timeout == 30
\* wait_for_workspace(..., max_crash_retries: int = 3)
max_crash_retries == 3
\* The driver is switched to a window that has been closed.
NoHandle == 0

\* RegisterStatus
PENDING == "pending"
RUNNING == "running"
SUCCESS == "success"
FAILED == "failed"

\* The error texts of an attempt's result.
ErrSelenium == "selenium_not_installed"    \* f"Selenium 未安装: {e}"
ErrNoMailbox == "cannot_create_mailbox"    \* "无法创建邮箱"
ErrCodeTimeout == "code_timeout"           \* "验证码超时"
ErrCodeInput == "code_input_failed"        \* f"验证码输入失败: {e}"
ErrNoNameField == "name_field_not_found"   \* "未找到姓名输入框"
ErrNoWorkspace == "workspace_not_reached"  \* "未跳转到工作台"
ErrIncomplete == "config_incomplete"       \* "配置数据不完整"
ErrExtract == "extract_failed_retried"     \* "提取配置失败（已重试）"
ErrException == "str(e)"                   \* str(e) of a caught exception

\* The address a mailbox provider hands out, and the domains a caller names.
Address == "x@y.com"
\* The address of an account an earlier attempt registered.
Earlier == "earlier@y.com"
Domains == {None, "d1"}

VARIABLES
    _tasks,             \* RegisterService._tasks: id -> RegisterTask
    _current_task_id,   \* RegisterService._current_task_id
    _specified_domain,  \* RegisterService._specified_domain
    _email_queue,       \* RegisterService._email_queue
    _mail_provider,     \* RegisterService._mail_provider (None or the provider)
    selenium_installed, \* whether the lazy imports of _register_one_sync succeed
    accounts,           \* the entries of accounts.json
    coro,               \* id -> position of the batch coroutine _run_register_async
    work_queue,         \* _executor: submitted work items not yet taken, FIFO
    future,             \* id -> the future of the attempt the coroutine awaits
    executing,          \* ids whose _register_one_sync a worker thread is running
    att,                \* AttemptSpec: the locals of one _register_one_sync call
    \* WaitSpec: one wait_for_workspace call
    w_pc, w_iter, crash_count, observed, recoveries, w_result,
    handles,            \* driver.window_handles: the open tabs
    focus,              \* the tab the driver is switched to (NoHandle: a closed one)
    tab_url,            \* handle -> what the tab shows
    rec,                \* RecoverSpec: the last _recover_from_crash call
    ext,                \* ExtractSpec: the locals of one extract_config_with_retry call
    mail,               \* MailSpec: one get_verification_code call
    ver,                \* PageSpec: the locals of one perform_email_verification call
    nm                  \* PageSpec: the locals of the name-entry step

svars == <<_tasks, _current_task_id, _specified_domain, coro, work_queue,
           future, executing>>
evars == <<_email_queue, _mail_provider, selenium_installed, accounts>>
wvars == <<w_pc, w_iter, crash_count, observed, recoveries, w_result, handles,
           focus, tab_url>>
hvars == <<rec, ext, mail, ver, nm>>
vars == <<svars, evars, att, wvars, hvars>>

TaskIds == 1..MaxTasks

\* ------------------------------------------------------------ RegisterTask
\* dataclass RegisterTask with its defaults
RegisterTask(id, count) ==
    [id |-> id, count |-> count, status |-> PENDING, progress |-> 0,
     success_count |-> 0, fail_count |-> 0, finished_at |-> None,
     results |-> <<>>, error |-> None]

\* The dict _register_one_sync returns.
Result(email, success, config, error) ==
    [email |-> email, success |-> success, config |-> config, error |-> error]

\* A future of run_in_executor: not done, done with a result, or done with an
\* exception.
NoFuture == [state |-> "none", result |-> Result(None, FALSE, None, None)]
PendingFuture == [state |-> "pending", result |-> Result(None, FALSE, None, None)]

\* Attempts handed to accepted batches so far.
Requested == LET RECURSIVE Sum(_)
                 Sum(S) == IF S = {} THEN 0
                           ELSE LET t == CHOOSE x \in S : TRUE
                                IN _tasks[t].count + Sum(S \ {t})
             IN Sum(DOMAIN _tasks)

\* ---------------------------------------------------------- start_register
\* The guard of start_register: a current task that is RUNNING.
StartRaisesNever == FALSE

StartRaises ==
    /\ _current_task_id # NoTask
    /\ _current_task_id \in DOMAIN _tasks
    /\ _tasks[_current_task_id].status = RUNNING

\* raise ValueError: nothing is changed.
StartRegisterRaise ==
    /\ StartRaises
    /\ UNCHANGED vars

\* start_register(count, domain) accepted: the task is registered as the
\* current one and its coroutine is scheduled (asyncio.create_task).
StartRegister(count, domain) ==
    /\ ~StartRaises
    /\ Cardinality(DOMAIN _tasks) < MaxTasks
    /\ Requested + count <= MaxAttempts
    /\ LET id == Cardinality(DOMAIN _tasks) + 1 IN
        /\ _specified_domain' = domain
        /\ _tasks' = _tasks @@ (id :> RegisterTask(id, count))
        /\ _current_task_id' = id
        /\ coro' = coro @@ (id :> "created")
        /\ future' = future @@ (id :> NoFuture)
    /\ UNCHANGED <<work_queue, executing, evars, att, wvars, hvars>>

\* ------------------------------------------------------ _run_register_async
\* loop.run_in_executor(self._executor, self._register_one_sync)
Submit(t) ==
    /\ work_queue' = Append(work_queue, t)
    /\ future' = [future EXCEPT ![t] = PendingFuture]

\* The terminal status after the loop.
FinalStatusAllOrNothing(task) ==
    IF task.success_count = task.count THEN SUCCESS ELSE FAILED

FinalStatus(task) == IF task.success_count > 0 THEN SUCCESS ELSE FAILED

\* finally: the guard is released whichever task held it.
KeptGuard(t) == _current_task_id

ReleasedGuard(t) == NoTask

\* finally: task.finished_at = time.time(); self._current_task_id = None
FinallySkipped(task) == task

Finally(task) == [task EXCEPT !.finished_at = "time"]

\* The coroutine's first step, up to its first await: status RUNNING, then
\* either no iteration at all (count 0) or progress 1 and the first attempt
\* submitted. Created coroutines are first run in creation order.
RunStart(t) ==
    /\ t \in DOMAIN coro /\ coro[t] = "created"
    /\ \A u \in DOMAIN coro : u < t => coro[u] # "created"
    /\ IF _tasks[t].count = 0
       THEN /\ _tasks' = [_tasks EXCEPT ![t] =
                   Finally([_tasks[t] EXCEPT !.status = FinalStatus(_tasks[t])])]
            /\ _current_task_id' = ReleasedGuard(t)
            /\ coro' = [coro EXCEPT ![t] = "done"]
            /\ UNCHANGED <<work_queue, future>>
       ELSE /\ _tasks' = [_tasks EXCEPT ![t].status = RUNNING, ![t].progress = 1]
            /\ Submit(t)
            /\ coro' = [coro EXCEPT ![t] = "awaiting"]
            /\ UNCHANGED _current_task_id
    /\ UNCHANGED <<_specified_domain, executing, evars, att, wvars, hvars>>

\* task.results.append(result) and the counters
RecordSuccessOnly(task, result) ==
    [task EXCEPT !.results = Append(@, result),
                 !.success_count = IF result.success THEN @ + 1 ELSE @]

Record(task, result) ==
    [task EXCEPT !.results = Append(@, result),
                 !.success_count = IF result.success THEN @ + 1 ELSE @,
                 !.fail_count = IF result.success THEN @ ELSE @ + 1]

\* The await returns a result: it is recorded; then either the inter-attempt
\* sleep (i < count - 1, with i = progress - 1) or the end of the loop.
Resume(t) ==
    /\ t \in DOMAIN coro /\ coro[t] = "awaiting"
    /\ future[t].state = "result"
    /\ LET task == Record(_tasks[t], future[t].result) IN
         IF task.progress < task.count
         THEN /\ _tasks' = [_tasks EXCEPT ![t] = task]
              /\ coro' = [coro EXCEPT ![t] = "sleeping"]
              /\ UNCHANGED _current_task_id
         ELSE /\ _tasks' = [_tasks EXCEPT ![t] =
                     Finally([task EXCEPT !.status = FinalStatus(task)])]
              /\ coro' = [coro EXCEPT ![t] = "done"]
              /\ _current_task_id' = ReleasedGuard(t)
    /\ future' = [future EXCEPT ![t] = NoFuture]
    /\ UNCHANGED <<_specified_domain, work_queue, executing, evars, att, wvars, hvars>>

\* The await raises what _register_one_sync raised: except Exception, finally.
ResumeRaised(t) ==
    /\ t \in DOMAIN coro /\ coro[t] = "awaiting"
    /\ future[t].state = "exception"
    /\ _tasks' = [_tasks EXCEPT ![t] =
           Finally([_tasks[t] EXCEPT !.status = FAILED, !.error = ErrException])]
    /\ coro' = [coro EXCEPT ![t] = "done"]
    /\ _current_task_id' = ReleasedGuard(t)
    /\ future' = [future EXCEPT ![t] = NoFuture]
    /\ UNCHANGED <<_specified_domain, work_queue, executing, evars, att, wvars, hvars>>

\* asyncio.sleep(random.randint(2, 5)) is over: the next iteration starts.
Wake(t) ==
    /\ t \in DOMAIN coro /\ coro[t] = "sleeping"
    /\ _tasks' = [_tasks EXCEPT ![t].progress = @ + 1]
    /\ Submit(t)
    /\ coro' = [coro EXCEPT ![t] = "awaiting"]
    /\ UNCHANGED <<_current_task_id, _specified_domain, executing, evars, att,
                   wvars, hvars>>

\* --------------------------------------------------------------- _executor
\* A worker thread of the pool is idle.
WorkerFreeUnbounded == TRUE

WorkerFree == Cardinality(executing) < max_workers

\* A worker thread takes the oldest submitted work item and calls
\* _register_one_sync.
TakeWork(t) ==
    /\ work_queue # <<>> /\ Head(work_queue) = t
    /\ WorkerFree
    /\ work_queue' = Tail(work_queue)
    /\ executing' = executing \cup {t}
    /\ UNCHANGED <<_tasks, _current_task_id, _specified_domain, coro, future,
                   evars, att, wvars, hvars>>

\* ------------------------------------------------------- _register_one_sync
\* What self._get_email() can do: hand out a queued address; or, the provider
\* not yet built, create_mail_provider_from_config() raises or returns None;
\* or the provider's create_email returns an address or None.
GetEmailOutcomes ==
    IF _email_queue # <<>> THEN {"queued"}
    ELSE {"created", "refused"} \cup
         (IF _mail_provider = None THEN {"raise", "unconfigured"} ELSE {})

\* The address _get_email returns on outcome o (None: no address).
EmailOfAlways(o) == IF o = "queued" THEN Head(_email_queue) ELSE Address

EmailOf(o) ==
    CASE o = "queued" -> Head(_email_queue)
      [] o = "created" -> Address
      [] OTHER -> None

\* self._email_queue.pop(0)
QueueAfter(o) == IF o = "queued" THEN Tail(_email_queue) ELSE _email_queue

\* The mail_provider property caches the provider once it is built.
ProviderAfter(o) ==
    IF o \in {"created", "refused"} THEN "provider" ELSE _mail_provider

\* The errors with which the try block ends an attempt: those its steps
\* return and the text of an exception caught by except Exception.
BrowserErrors ==
    {ErrException, ErrCodeTimeout, ErrCodeInput, ErrNoNameField, ErrNoWorkspace,
     ErrIncomplete, ErrExtract}

\* _save_config: the entries read back from accounts.json, the new entry
\* appended, the file rewritten.
SavedAccountsDropped(entries, email) == entries

SavedAccounts(entries, email) ==
    Append(entries, [id |-> email, data |-> "config_data"])

\* The entries _save_config starts from: those json.load reads from
\* accounts.json, or [] when the file is missing or opening or parsing it
\* raises (the bare except).
ReadAccounts(readable) == IF readable THEN accounts ELSE <<>>

\* One whole call of _register_one_sync in the worker thread, from the imports
\* to the return or the raise that completes the future. o is what the
\* imports and _get_email do, e how the try block ends.
Complete(t) ==
    /\ t \in executing
    /\ \E o \in (IF selenium_installed THEN GetEmailOutcomes ELSE {"no_selenium"}),
          e \in {"ok"} \cup BrowserErrors, readable \in BOOLEAN :
        LET email == EmailOf(o) IN
        /\ email = None => e = "ok"
        /\ _email_queue' = QueueAfter(o)
        /\ _mail_provider' = ProviderAfter(o)
        /\ accounts' = IF email # None /\ e = "ok"
                       THEN SavedAccounts(ReadAccounts(readable), email)
                       ELSE accounts
        /\ future' = [future EXCEPT ![t] =
               CASE o = "raise" -> [@ EXCEPT !.state = "exception"]
                 [] o = "no_selenium" ->
                      [state |-> "result", result |-> Result(None, FALSE, None, ErrSelenium)]
                 [] email = None ->
                      [state |-> "result", result |-> Result(None, FALSE, None, ErrNoMailbox)]
                 [] e = "ok" ->
                      [state |-> "result", result |-> Result(email, TRUE, "config", None)]
                 [] OTHER ->
                      [state |-> "result", result |-> Result(email, FALSE, None, e)]]
    /\ executing' = executing \ {t}
    /\ UNCHANGED <<_tasks, _current_task_id, _specified_domain, coro, work_queue,
                   selenium_installed, att, wvars, hvars>>

\* ------------------------------------- _register_one_sync, statement by statement
\* The locals of the call: where it is, email, driver, the number of
\* driver.quit() calls, and the value the return statement holds.
NoAttempt ==
    [pc |-> "idle", email |-> None, driver |-> None, quits |-> 0,
     result |-> Result(None, FALSE, None, None)]

\* return {...} before the try block: no finally clause is passed.
ReturnEarly(a, error) ==
    [a EXCEPT !.pc = "return", !.result = Result(a.email, FALSE, None, error)]

\* return {...} inside the try block, or the except clause: the finally
\* clause runs before the result is returned.
ReturnFailure(a, error) ==
    [a EXCEPT !.pc = "finally", !.result = Result(a.email, FALSE, None, error)]

\* A call inside the try block went on (o = "ok"), made the attempt return a
\* failure, or raised (caught by except Exception): o is then the error.
StepTo(a, o, to) == IF o = "ok" THEN [a EXCEPT !.pc = to] ELSE ReturnFailure(a, o)

AttemptFrame == UNCHANGED <<svars, wvars, hvars>>

BrowserFrame == UNCHANGED evars /\ AttemptFrame

\* The lazy selenium imports; ImportError returns a failure result.
ImportSelenium ==
    /\ att.pc = "import"
    /\ att' = IF selenium_installed THEN [att EXCEPT !.pc = "get_email"]
              ELSE ReturnEarly(att, ErrSelenium)
    /\ BrowserFrame

\* email = self._get_email(), called outside every try block, and
\* `if not email: return {...}`.
GetEmail ==
    /\ att.pc = "get_email"
    /\ \E o \in GetEmailOutcomes :
        /\ _email_queue' = QueueAfter(o)
        /\ _mail_provider' = ProviderAfter(o)
        /\ att' = CASE o = "raise" -> [att EXCEPT !.pc = "raised"]
                    [] EmailOf(o) = None -> ReturnEarly(att, ErrNoMailbox)
                    [] OTHER -> [att EXCEPT !.pc = "launch", !.email = EmailOf(o)]
    /\ UNCHANGED <<selenium_installed, accounts>>
    /\ AttemptFrame

\* driver = uc.Chrome(options=options, use_subprocess=True)
Launch ==
    /\ att.pc = "launch"
    /\ \E o \in {"ok", ErrException} :
        att' = StepTo([att EXCEPT !.driver = IF o = "ok" THEN "open" ELSE @], o, "login")
    /\ BrowserFrame

\* driver.get(self.auth_config.login_url)
Login ==
    /\ att.pc = "login"
    /\ \E o \in {"ok", ErrException} : att' = StepTo(att, o, "verify")
    /\ BrowserFrame

\* verify_result = self.auth_helper.perform_email_verification(...)
Verify ==
    /\ att.pc = "verify"
    /\ \E o \in {"ok", ErrCodeTimeout, ErrCodeInput, ErrException} :
        att' = StepTo(att, o, "name")
    /\ BrowserFrame

\* the name field polled 30 times, then typed into or reported missing
NameEntry ==
    /\ att.pc = "name"
    /\ \E o \in {"ok", ErrNoNameField, ErrException} : att' = StepTo(att, o, "wait")
    /\ BrowserFrame

\* self.auth_helper.wait_for_workspace(driver, timeout=30)
WaitWorkspace ==
    /\ att.pc = "wait"
    /\ \E o \in {"ok", ErrNoWorkspace, ErrException} : att' = StepTo(att, o, "extract")
    /\ BrowserFrame

\* extract_result = self.auth_helper.extract_config_with_retry(driver, 3)
Extract ==
    /\ att.pc = "extract"
    /\ \E o \in {"ok", ErrIncomplete, ErrExtract, ErrException} :
        att' = StepTo(att, o, "save")
    /\ BrowserFrame

\* config = self._save_config(email, config_data); return the success result.
Save ==
    /\ att.pc = "save"
    /\ \E o \in {"ok", ErrException}, readable \in BOOLEAN :
        /\ accounts' = IF o = "ok"
                       THEN SavedAccounts(ReadAccounts(readable), att.email)
                       ELSE accounts
        /\ att' = IF o = "ok"
                  THEN [att EXCEPT !.pc = "finally",
                                   !.result = Result(att.email, TRUE, "config", None)]
                  ELSE ReturnFailure(att, o)
    /\ UNCHANGED <<_email_queue, _mail_provider, selenium_installed>>
    /\ AttemptFrame

\* finally: `if driver:` guards the teardown.
QuitOnlyOnSuccess(a) == a.driver # None /\ a.result.success

NeedsQuit(a) == a.driver # None

\* finally: driver.quit() in a try whose bare except swallows its failure.
Teardown ==
    /\ att.pc = "finally"
    /\ \E quit_ok \in BOOLEAN :
        att' = IF NeedsQuit(att)
               THEN [att EXCEPT !.pc = "return", !.quits = @ + 1,
                                !.driver = IF quit_ok THEN "quit" ELSE "quit_failed"]
               ELSE [att EXCEPT !.pc = "return"]
    /\ BrowserFrame

\* The function returns its result to the executor.
Return ==
    /\ att.pc = "return"
    /\ att' = [att EXCEPT !.pc = "done"]
    /\ BrowserFrame

\* ------------------------------------------------------ _recover_from_crash
SetMax(S) == CHOOSE x \in S : \A y \in S : y <= x

\* The handle window.open('') gives the new tab: one never used before.
NewHandle == SetMax(DOMAIN tab_url) + 1

\* The loop over original_handles: each tab is closed, or closing it raises,
\* or switching to it raises (the bare except swallows both). f maps each
\* original handle to what happened; the tabs are visited in handle order.
CloseOutcomes == [handles -> {"closed", "close_failed", "switch_failed"}]

\* The tab the driver is switched to after the loop: the last one a switch
\* reached (closed by then, or not), else the new tab.
FocusAfterClosing(f, new) ==
    LET switched == {h \in handles : f[h] # "switch_failed"} IN
    IF switched = {} THEN new
    ELSE IF f[SetMax(switched)] = "closed" THEN NoHandle ELSE SetMax(switched)

\* Every way one call of _recover_from_crash(driver, target_url) can end: the
\* value it returns and the browser it leaves. `stop` is the statement that
\* raises ("none": no statement does), or "no_new_tab" when window.open('')
\* adds no handle.
RecoverOutcomes ==
    LET new == NewHandle
        opened == tab_url @@ (new :> "blank")
        same == [handles |-> handles, focus |-> focus, tab_url |-> tab_url]
    IN  {[ok |-> FALSE, browser |-> same]}   \* window_handles or window.open raises,
                                              \* or no new handle is found
        \cup
        \* driver.switch_to.window(new_handle) raises
        {[ok |-> FALSE,
          browser |-> [handles |-> handles \cup {new}, focus |-> focus,
                       tab_url |-> opened]]}
        \cup
        {[ok |-> stop = "none",
          browser |->
            [handles |-> {h \in handles : f[h] # "closed"} \cup {new},
             focus |-> IF stop = "switch_back" THEN FocusAfterClosing(f, new) ELSE new,
             tab_url |-> [h \in DOMAIN opened |->
                            IF h \in handles /\ f[h] = "closed" THEN "closed"
                            ELSE IF h = new /\ stop = "none" THEN "target_url"
                            ELSE opened[h]]]]
           : f \in CloseOutcomes, stop \in {"switch_back", "get", "none"}}

\* ------------------------------------------------------- wait_for_workspace
WaitReturn(value) ==
    /\ w_result' = value
    /\ w_pc' = "done"

\* for _ in range(timeout): time.sleep(1); page_source = driver.page_source,
\* which shows a crash sentinel or not, or raises an error whose text matches
\* the crash substrings or does not.
WaitPoll ==
    /\ w_pc = "loop" /\ w_iter < timeout
    /\ w_iter' = w_iter + 1
    /\ \E obs \in {"clean", "sentinel", "crash_error", "other_error"} :
        observed' = obs
    /\ w_pc' = "observed"
    /\ UNCHANGED <<crash_count, recoveries, w_result, handles, focus, tab_url>>
    /\ UNCHANGED <<svars, evars, att, hvars>>

\* The loop ran `timeout` times: return False.
WaitExhausted ==
    /\ w_pc = "loop" /\ w_iter = timeout
    /\ WaitReturn("False")
    /\ UNCHANGED <<w_iter, crash_count, observed, recoveries, handles, focus,
                   tab_url>>
    /\ UNCHANGED <<svars, evars, att, hvars>>

\* if crash_count >= max_crash_retries: return False
GivesUp(crashes) == crashes >= max_crash_retries

\* A crash was detected (is_crashed, or the except branch on a crash-matching
\* error): it is counted; then the wait gives up, or _recover_from_crash is
\* called and the loop continues when it returns true.
WaitCrash ==
    /\ w_pc = "observed" /\ observed \in {"sentinel", "crash_error"}
    /\ crash_count' = crash_count + 1
    /\ IF GivesUp(crash_count')
       THEN /\ WaitReturn("False")
            /\ UNCHANGED <<observed, recoveries, handles, focus, tab_url>>
       ELSE \E r \in RecoverOutcomes :
            /\ recoveries' = recoveries + 1
            /\ handles' = r.browser.handles
            /\ focus' = r.browser.focus
            /\ tab_url' = r.browser.tab_url
            /\ IF r.ok
               THEN w_pc' = "loop" /\ observed' = "none" /\ UNCHANGED w_result
               ELSE WaitReturn("False") /\ UNCHANGED observed
    /\ UNCHANGED w_iter
    /\ UNCHANGED <<svars, evars, att, hvars>>

\* No sentinel: url = driver.current_url, which matches the workspace pattern
\* or not, or raises.
WaitCheckUrl ==
    /\ w_pc = "observed" /\ observed = "clean"
    /\ \E u \in {"workspace", "elsewhere", "crash_error", "other_error"} :
        CASE u = "workspace" -> WaitReturn("True") /\ UNCHANGED observed
          [] u = "elsewhere" -> w_pc' = "loop" /\ observed' = "none" /\ UNCHANGED w_result
          [] u = "crash_error" -> observed' = u /\ UNCHANGED <<w_pc, w_result>>
          [] OTHER -> w_pc' = "loop" /\ observed' = "none" /\ UNCHANGED w_result
    /\ UNCHANGED <<w_iter, crash_count, recoveries, handles, focus, tab_url>>
    /\ UNCHANGED <<svars, evars, att, hvars>>

\* except Exception with a text that matches no crash substring: keep waiting.
WaitOtherError ==
    /\ w_pc = "observed" /\ observed = "other_error"
    /\ w_pc' = "loop" /\ observed' = "none"
    /\ UNCHANGED <<w_iter, crash_count, recoveries, w_result, handles, focus,
                   tab_url>>
    /\ UNCHANGED <<svars, evars, att, hvars>>

\* -------------------------------- _recover_from_crash, statement by statement
\* The locals of the call: where it is, original_handles, the handles the
\* closing loop has still to visit, new_handle (NoHandle for None), the
\* statement whose exception reached `except Exception`, the previously
\* known tabs whose switch or close failed, and the returned value.
NoRecovery ==
    [pc |-> "idle", original |-> {}, todo |-> {}, new |-> NoHandle,
     raised |-> "none", swallowed |-> {}, ok |-> FALSE]

\* except Exception as e: return False
RecoverRaise(r, statement) ==
    [r EXCEPT !.pc = "returned", !.ok = FALSE, !.raised = statement]

RecoverFrame == UNCHANGED <<svars, evars, att, ext, mail, ver, nm>>

WaitLocals == <<w_pc, w_iter, crash_count, observed, recoveries, w_result>>

\* original_handles = driver.window_handles
RecoverListHandles ==
    /\ rec.pc = "list"
    /\ \E o \in {"ok", "raise"} :
        rec' = IF o = "ok" THEN [rec EXCEPT !.pc = "open", !.original = handles]
               ELSE RecoverRaise(rec, "window_handles")
    /\ UNCHANGED <<WaitLocals, handles, focus, tab_url>>
    /\ RecoverFrame

\* driver.execute_script("window.open('');"): a tab is opened, or none is
\* (the script runs, no window appears), or the call raises.
RecoverOpenTab ==
    /\ rec.pc = "open"
    /\ \E o \in {"opened", "blocked", "raise"} :
        /\ rec' = IF o = "raise" THEN RecoverRaise(rec, "window_open")
                  ELSE [rec EXCEPT !.pc = "relist"]
        /\ handles' = IF o = "opened" THEN handles \cup {NewHandle} ELSE handles
        /\ tab_url' = IF o = "opened" THEN tab_url @@ (NewHandle :> "blank")
                      ELSE tab_url
    /\ UNCHANGED <<WaitLocals, focus>>
    /\ RecoverFrame

\* new_handles = driver.window_handles; new_handle = the first handle not in
\* original_handles; `if not new_handle: return False`.
RecoverFindNew ==
    /\ rec.pc = "relist"
    /\ \E o \in {"ok", "raise"} :
        rec' = IF o = "raise" THEN RecoverRaise(rec, "window_handles")
               ELSE IF handles \ rec.original = {}
                    THEN [rec EXCEPT !.pc = "returned", !.ok = FALSE]
                    ELSE [rec EXCEPT !.pc = "switch_new",
                                     !.new = SetMax(handles \ rec.original)]
    /\ UNCHANGED <<WaitLocals, handles, focus, tab_url>>
    /\ RecoverFrame

\* driver.switch_to.window(new_handle)
RecoverSwitchNew ==
    /\ rec.pc = "switch_new"
    /\ \E o \in {"ok", "raise"} :
        /\ rec' = IF o = "ok" THEN [rec EXCEPT !.pc = "close", !.todo = rec.original]
                  ELSE RecoverRaise(rec, "switch_new")
        /\ focus' = IF o = "ok" THEN rec.new ELSE focus
    /\ UNCHANGED <<WaitLocals, handles, tab_url>>
    /\ RecoverFrame

\* except: pass, inside the closing loop
CloseFailureRaises(r, h) == RecoverRaise(r, "close")

CloseFailure(r, h) == [r EXCEPT !.swallowed = @ \cup {h}, !.todo = @ \ {h}]

\* for handle in original_handles: driver.switch_to.window(handle);
\* driver.close(), either of which may raise. One iteration.
RecoverCloseOld ==
    /\ rec.pc = "close" /\ rec.todo # {}
    /\ LET h == CHOOSE x \in rec.todo : \A y \in rec.todo : x <= y IN
       \E o \in {"closed", "close_failed", "switch_failed"} :
        /\ rec' = IF o = "closed" THEN [rec EXCEPT !.todo = @ \ {h}]
                  ELSE CloseFailure(rec, h)
        /\ handles' = IF o = "closed" THEN handles \ {h} ELSE handles
        /\ tab_url' = IF o = "closed" THEN [tab_url EXCEPT ![h] = "closed"]
                      ELSE tab_url
        /\ focus' = CASE o = "closed" -> NoHandle
                      [] o = "close_failed" -> h
                      [] OTHER -> focus
    /\ UNCHANGED WaitLocals
    /\ RecoverFrame

\* After the loop: driver.switch_to.window(new_handle)
RecoverSwitchBack ==
    /\ rec.pc = "close" /\ rec.todo = {}
    /\ \E o \in {"ok", "raise"} :
        /\ rec' = IF o = "ok" THEN [rec EXCEPT !.pc = "get"]
                  ELSE RecoverRaise(rec, "switch_back")
        /\ focus' = IF o = "ok" THEN rec.new ELSE focus
    /\ UNCHANGED <<WaitLocals, handles, tab_url>>
    /\ RecoverFrame

\* driver.get(target_url); return True
RecoverNavigate ==
    /\ rec.pc = "get"
    /\ \E o \in {"ok", "raise"} :
        /\ rec' = IF o = "ok" THEN [rec EXCEPT !.pc = "returned", !.ok = TRUE]
                  ELSE RecoverRaise(rec, "get")
        /\ tab_url' = IF o = "ok" /\ focus \in DOMAIN tab_url
                      THEN [tab_url EXCEPT ![focus] = "target_url"] ELSE tab_url
    /\ UNCHANGED <<WaitLocals, handles, focus>>
    /\ RecoverFrame

\* ------------------------------------- MailProvider.get_verification_code
\* GeminiAuthHelper.get_verification_code(self, email, timeout: int = 60)
code_timeout == 60
\* A loop that polls again without sleeping: the clock stands still.
no_interval == code_timeout - code_timeout
\* time.sleep(2) between two polls
poll_interval == 2
\* requests.get(..., timeout=10)
request_timeout == 10
\* config.basic.google_mail: the sender the verification mail comes from
google_mail == "noreply@google.com"

Providers == {"cloudflare", "chatgpt"}

\* A mail on the server: the address it was sent to, its sender, and the
\* code it carries (None: it carries none that the provider can extract).
Messages ==
    [address : {Address, Earlier}, source : {google_mail, "stranger@x.com"},
     code : {"482913", None}]

NoMessage == [address |-> None, source |-> None, code |-> None]

\* What the inbox-listing endpoint can answer: up to MaxListing mails.
Listings == UNION {[1..n -> Messages] : n \in 0..MaxListing}

\* The locals of the call: where it is, the provider, time.time() - start in
\* seconds, the returned code and the mail it was taken from.
NoPoll ==
    [pc |-> "idle", provider |-> "none", clock |-> 0, code |-> None,
     msg |-> NoMessage]

\* CloudflareMailProvider: the first listed mail with this address and this
\* sender; reading its code raises when it carries none, which the except
\* clause swallows.
CloudflareFinds(listing, email, sender) ==
    LET hits == {i \in 1..Len(listing) :
                    listing[i].address = email /\ listing[i].source = sender}
        first == CHOOSE i \in hits : \A j \in hits : i <= j
    IN  IF hits # {} /\ listing[first].code # None THEN listing[first]
        ELSE NoMessage

\* ChatGPTMailProvider: the endpoint is asked for the mails of this address
\* (params={"email": email}); emails[0] is searched for a 6-digit code.
ChatGPTFinds(listing, email, sender) ==
    LET inbox == SelectSeq(listing, LAMBDA m : m.address = email)
    IN  IF inbox # <<>> /\ inbox[1].code # None THEN inbox[1] ELSE NoMessage

\* The mail one poll of the provider takes the code from, if any.
Finds(provider, listing, email, sender) ==
    IF provider = "cloudflare" THEN CloudflareFinds(listing, email, sender)
    ELSE ChatGPTFinds(listing, email, sender)

MailFrame == UNCHANGED <<svars, evars, att, wvars, rec, ext, ver, nm>>

\* while time.time() - start < timeout: ...; after the loop, return None
MailCheck ==
    /\ mail.pc = "check"
    /\ mail' = IF mail.clock < code_timeout THEN [mail EXCEPT !.pc = "request"]
               ELSE [mail EXCEPT !.pc = "done", !.code = None]
    /\ MailFrame

\* One poll: the request takes up to its timeout and answers with a listing
\* or fails (status, exception); a code found is returned, else
\* time.sleep(2).
MailRequest ==
    /\ mail.pc = "request"
    /\ \E latency \in 0..request_timeout, answered \in BOOLEAN, listing \in Listings :
        LET found == IF answered
                     THEN Finds(mail.provider, listing, Address, google_mail)
                     ELSE NoMessage
        IN  mail' = IF found # NoMessage
                    THEN [mail EXCEPT !.pc = "done", !.code = found.code,
                                      !.msg = found,
                                      !.clock = @ + latency]
                    ELSE [mail EXCEPT !.pc = "check",
                                      !.clock = @ + latency + poll_interval]
    /\ MailFrame

\* ------------------------------------------------ extract_config_with_retry
\* extract_config_with_retry(driver, max_retries=3) as _register_one_sync
\* calls it
max_retries == 3

\* The four values extract_config_from_workspace requires: the csesidx query
\* parameter, the config id of the /cid/ path, and the values of the cookies
\* __Secure-C_SES and __Host-C_OSES.
Fields == {"csesidx", "config_id", "secure_c_ses", "host_c_oses"}

\* {"success": ..., "config": ..., "error": ...}; config is the set of
\* required fields the config dict holds ({} for None).
ExtractResult(success, config, error) ==
    [success |-> success, config |-> config, error |-> error]

\* The locals of the call: where it is, the iterations started, the calls of
\* extract_config_from_workspace, last_error and every value assigned to it,
\* the driver.refresh() calls (and those answering a detected crash), the
\* returned dict.
NoExtract ==
    [pc |-> "idle", attempt |-> 0, extracts |-> 0, last_error |-> None,
     recorded |-> <<>>, refreshes |-> 0, crash_refreshes |-> 0,
     result |-> ExtractResult(FALSE, {}, None)]

\* all([ses_cookie.get('value'), host_cookie.get('value'), csesidx, config_id]):
\* page is the set of required values that are present and non-empty.
AnyPresent(page) == \E f \in Fields : f \in page

AllPresent(page) == \A f \in Fields : f \in page

\* extract_config_from_workspace(driver): reading the cookies or the URL
\* raises (caught: the error is str(e)), or the four values are checked.
ExtractConfigFromWorkspace(page, raised) ==
    IF raised THEN ExtractResult(FALSE, {}, ErrException)
    ELSE IF AllPresent(page) THEN ExtractResult(TRUE, page, None)
    ELSE ExtractResult(FALSE, {}, ErrIncomplete)

\* driver.refresh() is issued; on_crash: in answer to a detected crash.
Refresh(e, on_crash) ==
    [e EXCEPT !.refreshes = @ + 1,
              !.crash_refreshes = IF on_crash THEN @ + 1 ELSE @]

\* last_error = ...
RecordError(e, error) ==
    [e EXCEPT !.last_error = error, !.recorded = Append(@, error)]

\* Where a statement inside the try block leads: on, or to the except clause
\* with an error text that matches 'crash'/'tab' or does not.
AfterCall(r) ==
    CASE r = "ok" -> "loop"
      [] r = "crash_error" -> "except_crash"
      [] OTHER -> "except_other"

ExtractFrame == UNCHANGED <<svars, evars, att, wvars, rec, mail, ver, nm>>

\* for attempt in range(max_retries): page_source = driver.page_source, which
\* shows a crash sentinel or not, or raises.
ExtractIterate ==
    /\ ext.pc = "loop" /\ ext.attempt < max_retries
    /\ \E obs \in {"clean", "sentinel", "crash_error", "other_error"} :
        ext' = [ext EXCEPT !.attempt = @ + 1,
                           !.pc = CASE obs = "clean" -> "extract"
                                    [] obs = "sentinel" -> "crashed"
                                    [] obs = "crash_error" -> "except_crash"
                                    [] OTHER -> "except_other"]
    /\ ExtractFrame

\* The page shows 'crashed' or 'aw, snap': driver.refresh(); continue.
ExtractSentinel ==
    /\ ext.pc = "crashed"
    /\ \E r \in {"ok", "crash_error", "other_error"} :
        ext' = [Refresh(ext, TRUE) EXCEPT !.pc = AfterCall(r)]
    /\ ExtractFrame

\* extract_result = self.extract_config_from_workspace(driver): returned on
\* success; else last_error is set and driver.refresh() issued.
ExtractCall ==
    /\ ext.pc = "extract"
    /\ \E page \in SUBSET Fields, raised \in BOOLEAN :
        LET res == ExtractConfigFromWorkspace(page, raised)
            called == [ext EXCEPT !.extracts = @ + 1]
        IN  IF res.success
            THEN ext' = [called EXCEPT !.result = res, !.pc = "done"]
            ELSE \E r \in {"ok", "crash_error", "other_error"} :
                   ext' = [Refresh(RecordError(called, res.error), FALSE)
                             EXCEPT !.pc = AfterCall(r)]
    /\ ExtractFrame

\* except Exception with a text matching 'crash' or 'tab': driver.refresh(),
\* and driver.get(workspace) when that raises; both failures are swallowed.
ExtractExceptCrash ==
    /\ ext.pc = "except_crash"
    /\ ext' = [Refresh(ext, TRUE) EXCEPT !.pc = "loop"]
    /\ ExtractFrame

\* except Exception with another text: last_error = str(e); driver.refresh()
ExtractExceptOther ==
    /\ ext.pc = "except_other"
    /\ ext' = [Refresh(RecordError(ext, ErrException), FALSE) EXCEPT !.pc = "loop"]
    /\ ExtractFrame

\* last_error or "提取配置失败（已重试）"
ExhaustedErrorRaw(last_error) == last_error

ExhaustedError(last_error) == IF last_error # None THEN last_error ELSE ErrExtract

\* The loop ran max_retries times without a successful extraction.
ExtractExhausted ==
    /\ ext.pc = "loop" /\ ext.attempt = max_retries
    /\ ext' = [ext EXCEPT !.result = ExtractResult(FALSE, {}, ExhaustedError(ext.last_error)),
                          !.pc = "done"]
    /\ ExtractFrame

\* ----------------------------------------------- perform_email_verification
\* {"success": ..., "error": ...}
VerifyResult(success, error) == [success |-> success, error |-> error]

\* The locals of the call: where it is, the code the mailbox gave, the
\* code-input shape the code was typed into ("pin": input[name='pinInput'],
\* "span": span[data-index='0']), the verify control that was clicked
\* ("fixed": the XPATH verify_btn, "fallback": a button whose text carries
\* the label), the returned dict.
NoVerification ==
    [pc |-> "idle", code |-> None, typed |-> "none", clicked |-> "none",
     result |-> VerifyResult(FALSE, None)]

\* return {"success": False, "error": ...}, or except Exception: str(e)
VerifyFails(v, error) ==
    [v EXCEPT !.pc = "done", !.result = VerifyResult(FALSE, error)]

PageFrame == UNCHANGED <<svars, evars, att, wvars, rec, ext, mail>>

\* Steps 1 and 2: the email is typed into the email input and the continue
\* button clicked; wait.until or a click may raise.
VerifyEnterEmail ==
    /\ ver.pc = "email"
    /\ \E o \in {"ok", "raise"} :
        ver' = IF o = "ok" THEN [ver EXCEPT !.pc = "get_code"]
               ELSE VerifyFails(ver, ErrException)
    /\ UNCHANGED nm
    /\ PageFrame

\* Step 3: code = self.get_verification_code(email); `if not code`.
VerifyGetCode ==
    /\ ver.pc = "get_code"
    /\ \E o \in {"482913", None, "raise"} :
        ver' = CASE o = "raise" -> VerifyFails(ver, ErrException)
                 [] o = None -> VerifyFails(ver, ErrCodeTimeout)
                 [] OTHER -> [ver EXCEPT !.pc = "input", !.code = o]
    /\ UNCHANGED nm
    /\ PageFrame

\* Step 4: the code is typed into the pin input; when that raises, into the
\* active element after a click on the first digit span; when that raises
\* too, the failure is returned.
VerifyInputCode ==
    /\ ver.pc = "input"
    /\ \E o \in {"pin", "span", "neither"} :
        ver' = IF o = "neither" THEN VerifyFails(ver, ErrCodeInput)
               ELSE [ver EXCEPT !.pc = "click", !.typed = o]
    /\ UNCHANGED nm
    /\ PageFrame

\* The fallback scan `for btn in driver.find_elements(By.TAG_NAME, "button")`:
\* the first button whose text contains the label is clicked; labelled is
\* whether there is one.
ScanClicks(labelled) == IF labelled THEN "fallback" ELSE "none"

\* Step 5: the verify button at the fixed path is clicked; when that raises,
\* the buttons are scanned (the scan itself may raise, into the outer
\* except); then success is returned.
VerifyClick ==
    /\ ver.pc = "click"
    /\ \E o \in {"fixed", "scan", "raise"}, labelled \in BOOLEAN :
        ver' = IF o = "raise" THEN VerifyFails(ver, ErrException)
               ELSE [ver EXCEPT !.pc = "done",
                                !.clicked = IF o = "fixed" THEN "fixed"
                                            ELSE ScanClicks(labelled),
                                !.result = VerifyResult(TRUE, None)]
    /\ UNCHANGED nm
    /\ PageFrame

\* ------------------------------------------ _register_one_sync: name entry
\* for _ in range(30)
name_polls == 30

\* The locals of the step: where it is, the polls made, name_inp (None or
\* the element last found), whether some is_displayed() has answered True,
\* whether the name was typed and submitted, and how the step ended: an
\* error, or "wait" (the attempt goes on to the workspace wait).
NoNameEntry ==
    [pc |-> "idle", polls |-> 0, name_inp |-> None, seen_visible |-> FALSE,
     typed |-> FALSE, error |-> None, next |-> "none"]

\* return {..., "error": ...} from the step, or an exception caught by the
\* except clause of _register_one_sync
NameFails(n, error) == [n EXCEPT !.pc = "done", !.error = error]

\* verify_result["success"]: the attempt goes on to the name entry.
NameStart ==
    /\ ver.pc = "done" /\ ver.result.success
    /\ nm.pc = "idle"
    /\ nm' = [nm EXCEPT !.pc = "poll"]
    /\ UNCHANGED ver
    /\ PageFrame

\* One pass of `for sel in selectors`: every find_element raises (name_inp
\* keeps its value), or some locator finds an element but none is displayed
\* (name_inp is the last one found), or one is displayed (break).
NamePoll ==
    /\ nm.pc = "poll" /\ nm.polls < name_polls
    /\ \E found \in {"none", "hidden", "visible"} :
        nm' = [nm EXCEPT !.pc = "check", !.polls = @ + 1,
                         !.name_inp = IF found = "none" THEN @ ELSE "element",
                         !.seen_visible = @ \/ found = "visible"]
    /\ UNCHANGED ver
    /\ PageFrame

\* `if name_inp and name_inp.is_displayed(): break`, outside the inner try:
\* is_displayed answers for the page as it is now, or raises (the element is
\* stale); else time.sleep(1).
NameCheck ==
    /\ nm.pc = "check"
    /\ IF nm.name_inp = None
       THEN nm' = [nm EXCEPT !.pc = "poll"]
       ELSE \E displayed \in {"true", "false", "raise"} :
            nm' = CASE displayed = "true" ->
                         [nm EXCEPT !.pc = "decide", !.seen_visible = TRUE]
                    [] displayed = "false" -> [nm EXCEPT !.pc = "poll"]
                    [] OTHER -> NameFails(nm, ErrException)
    /\ UNCHANGED ver
    /\ PageFrame

\* The loop has run name_polls times.
NameExhausted ==
    /\ nm.pc = "poll" /\ nm.polls = name_polls
    /\ nm' = [nm EXCEPT !.pc = "decide"]
    /\ UNCHANGED ver
    /\ PageFrame

\* `if name_inp and name_inp.is_displayed():` after the loop, else the
\* 'name field not found' failure.
NameDecide ==
    /\ nm.pc = "decide"
    /\ IF nm.name_inp = None
       THEN nm' = NameFails(nm, ErrNoNameField)
       ELSE \E displayed \in {"true", "false", "raise"} :
            nm' = CASE displayed = "true" ->
                         [nm EXCEPT !.pc = "type", !.seen_visible = TRUE]
                    [] displayed = "false" -> NameFails(nm, ErrNoNameField)
                    [] OTHER -> NameFails(nm, ErrException)
    /\ UNCHANGED ver
    /\ PageFrame

\* click, clear, the name typed character by character, ENTER; any of them
\* may raise.
NameType ==
    /\ nm.pc = "type"
    /\ \E o \in {"ok", "raise"} :
        nm' = IF o = "ok" THEN [nm EXCEPT !.pc = "done", !.typed = TRUE,
                                          !.next = "wait"]
              ELSE NameFails(nm, ErrException)
    /\ UNCHANGED ver
    /\ PageFrame

\* ----------------------------------------------------------- specifications
\* RegisterService.__init__
ServiceInit ==
    /\ _tasks = <<>>
    /\ _current_task_id = NoTask
    /\ _specified_domain = None
    /\ coro = <<>>
    /\ work_queue = <<>>
    /\ future = <<>>
    /\ executing = {}

\* No wait_for_workspace call is under way.
WaitIdle ==
    /\ w_pc = "off" /\ w_iter = 0 /\ crash_count = 0 /\ observed = "none"
    /\ recoveries = 0 /\ w_result = "none"
    /\ handles = {} /\ focus = NoHandle /\ tab_url = <<>>

\* No helper call is under way.
\* No page step is under way.
PageIdle == ver = NoVerification /\ nm = NoNameEntry

HelpersIdle == rec = NoRecovery /\ ext = NoExtract /\ mail = NoPoll /\ PageIdle

Init ==
    /\ ServiceInit
    /\ _email_queue = <<>>
    /\ _mail_provider = None
    /\ selenium_installed \in BOOLEAN
    /\ accounts = <<>>
    /\ att = NoAttempt
    /\ WaitIdle
    /\ HelpersIdle

\* The steps of the event loop.
LoopStep(t) == RunStart(t) \/ Resume(t) \/ ResumeRaised(t) \/ Wake(t)

\* The steps of the worker thread.
WorkerStep(t) == TakeWork(t) \/ Complete(t)

Internal == \E t \in TaskIds : LoopStep(t) \/ WorkerStep(t)

Next ==
    \/ \E count \in 0..MaxAttempts, domain \in Domains : StartRegister(count, domain)
    \/ StartRegisterRaise
    \/ Internal

Spec == Init /\ [][Next]_vars

\* The event loop runs every ready coroutine and the worker thread every
\* submitted attempt; every browser and mailbox call returns or raises.
FairSpec == Spec /\ WF_vars(Internal)

\* One call of _register_one_sync: the first of a service or a later one (the
\* provider built, accounts.json written before).
AttemptInit ==
    /\ ServiceInit
    /\ _email_queue = <<>>
    /\ _mail_provider \in {None, "provider"}
    /\ selenium_installed \in BOOLEAN
    /\ accounts \in {<<>>, SavedAccounts(<<>>, Earlier)}
    /\ att = [NoAttempt EXCEPT !.pc = "import"]
    /\ WaitIdle
    /\ HelpersIdle

AttemptNext ==
    \/ ImportSelenium \/ GetEmail \/ Launch \/ Login \/ Verify \/ NameEntry
    \/ WaitWorkspace \/ Extract \/ Save \/ Teardown \/ Return

AttemptSpec == AttemptInit /\ [][AttemptNext]_vars

\* One call of wait_for_workspace on a browser with its one tab.
WaitInit ==
    /\ ServiceInit
    /\ _email_queue = <<>>
    /\ _mail_provider = None
    /\ selenium_installed = TRUE
    /\ accounts = <<>>
    /\ att = NoAttempt
    /\ w_pc = "loop" /\ w_iter = 0 /\ crash_count = 0 /\ observed = "none"
    /\ recoveries = 0 /\ w_result = "none"
    /\ handles = {1} /\ focus = 1 /\ tab_url = (1 :> "signup")
    /\ HelpersIdle

WaitNext ==
    WaitPoll \/ WaitExhausted \/ WaitCrash \/ WaitCheckUrl \/ WaitOtherError

WaitSpec == WaitInit /\ [][WaitNext]_vars

\* Every part of the service idle but the helper call under study.
ServiceIdle ==
    /\ ServiceInit
    /\ _email_queue = <<>>
    /\ _mail_provider = "provider"
    /\ selenium_installed = TRUE
    /\ accounts = <<>>
    /\ att = NoAttempt

\* One call of extract_config_with_retry.
ExtractInit ==
    /\ ServiceIdle
    /\ WaitIdle
    /\ rec = NoRecovery /\ mail = NoPoll /\ PageIdle
    /\ ext = [NoExtract EXCEPT !.pc = "loop"]

ExtractNext ==
    \/ ExtractIterate \/ ExtractSentinel \/ ExtractCall \/ ExtractExceptCrash
    \/ ExtractExceptOther \/ ExtractExhausted

ExtractSpec == ExtractInit /\ [][ExtractNext]_vars

\* One call of _recover_from_crash on a browser that has had up to MaxTabs
\* tabs, at least one of them still open, the driver switched to an open one.
RecoverInit ==
    /\ ServiceIdle
    /\ w_pc = "off" /\ w_iter = 0 /\ crash_count = 0 /\ observed = "none"
    /\ recoveries = 0 /\ w_result = "none"
    /\ \E n \in 1..MaxTabs : tab_url \in [1..n -> {"crashed", "closed"}]
    /\ handles = {h \in DOMAIN tab_url : tab_url[h] # "closed"}
    /\ handles # {}
    /\ focus \in handles
    /\ ext = NoExtract /\ mail = NoPoll /\ PageIdle
    /\ rec = [NoRecovery EXCEPT !.pc = "list"]

RecoverNext ==
    \/ RecoverListHandles \/ RecoverOpenTab \/ RecoverFindNew \/ RecoverSwitchNew
    \/ RecoverCloseOld \/ RecoverSwitchBack \/ RecoverNavigate

RecoverSpec == RecoverInit /\ [][RecoverNext]_vars

\* One call of get_verification_code(Address, google_mail, 60) on either
\* provider.
MailInit ==
    /\ ServiceIdle
    /\ WaitIdle
    /\ rec = NoRecovery /\ ext = NoExtract /\ PageIdle
    /\ \E provider \in Providers :
          mail = [NoPoll EXCEPT !.pc = "check", !.provider = provider]

MailNext == MailCheck \/ MailRequest

MailSpec == MailInit /\ [][MailNext]_vars

\* The page steps of one attempt: perform_email_verification and, when it
\* succeeds, the name entry.
PageInit ==
    /\ ServiceIdle
    /\ WaitIdle
    /\ rec = NoRecovery /\ ext = NoExtract /\ mail = NoPoll
    /\ ver = [NoVerification EXCEPT !.pc = "email"]
    /\ nm = NoNameEntry

PageNext ==
    \/ VerifyEnterEmail \/ VerifyGetCode \/ VerifyInputCode \/ VerifyClick
    \/ NameStart \/ NamePoll \/ NameCheck \/ NameExhausted \/ NameDecide
    \/ NameType

PageSpec == PageInit /\ [][PageNext]_vars

\* The whole flow: the service, or any one of the calls an attempt is made
\* of, each running to its end: the event loop runs every ready coroutine,
\* the worker every submitted attempt, and every browser and mailbox call
\* returns or raises.
FlowInit ==
    \/ Init \/ AttemptInit \/ WaitInit \/ RecoverInit \/ ExtractInit
    \/ MailInit \/ PageInit

CallStep ==
    \/ AttemptNext \/ WaitNext \/ RecoverNext \/ ExtractNext \/ MailNext
    \/ PageNext

\* No call is studied on its own: the state is one of the service.
CallsIdle ==
    /\ att.pc = "idle" /\ w_pc = "off" /\ rec.pc = "idle" /\ ext.pc = "idle"
    /\ mail.pc = "idle" /\ ver.pc = "idle"

ServiceStep == CallsIdle /\ Next

FlowNext == ServiceStep \/ CallStep

FairFlowSpec ==
    /\ FlowInit /\ [][FlowNext]_vars
    /\ WF_vars(CallsIdle /\ Internal) /\ WF_vars(CallStep)

\* ------------------------------------------------------------------- claims
Terminal(task) == task.status \in {SUCCESS, FAILED}

RunningTasks == {t \in DOMAIN _tasks : _tasks[t].status = RUNNING}

\* C1: in every reachable state at most one RegisterTask has status
\* 'running', also when start_register is called back-to-back before the
\* first batch's coroutine has run.
C1_AtMostOneRunning == Cardinality(RunningTasks) <= 1

\* C2: whenever some task has status 'running', start_register raises instead
\* of returning a new task.
C2_StartWhileRunningRaises == RunningTasks # {} => StartRaises

\* C3: a batch started with count N >= 1 that has reached a terminal status
\* has N recorded results and success_count + fail_count = N.
C3_TerminalHasAllResults ==
    \A t \in DOMAIN _tasks :
        LET task == _tasks[t] IN
        (Terminal(task) /\ task.count >= 1) =>
            /\ Len(task.results) = task.count
            /\ task.success_count + task.fail_count = task.count

\* The results of a batch of 3 whose attempt 2 alone fails, with the
\* verification-code timeout.
OnlySecondTimedOut(results) ==
    /\ Len(results) = 3
    /\ results[1].success
    /\ ~results[2].success /\ results[2].error = ErrCodeTimeout
    /\ results[3].success

\* C4: a batch that performed all of its N attempts ends 'success' exactly
\* when success_count >= 1 and 'failed' otherwise; a batch of 3 whose attempt
\* 2 alone fails with a code timeout ends success with success_count 2,
\* fail_count 1 and progress 3.
C4_TerminalStatus ==
    \A t \in DOMAIN _tasks :
        LET task == _tasks[t] IN
        (Terminal(task) /\ Len(task.results) = task.count) =>
            /\ (task.status = SUCCESS) <=> (task.success_count >= 1)
            /\ (task.status = FAILED) <=> (task.success_count = 0)
            /\ OnlySecondTimedOut(task.results) =>
                  /\ task.status = SUCCESS
                  /\ task.success_count = 2 /\ task.fail_count = 1
                  /\ task.progress = 3

\* A finished batch of 3 whose second attempt alone timed out.
C4_Witness ==
    \E t \in DOMAIN _tasks :
        Terminal(_tasks[t]) /\ OnlySecondTimedOut(_tasks[t].results)

\* C5: every accepted batch eventually has finished_at set, whether it
\* performs all attempts or an exception interrupts it; the step that sets it
\* releases _current_task_id, and start_register is accepted in the state it
\* leaves.
C5_FinishedAndReleased ==
    /\ \A t \in TaskIds :
          [](t \in DOMAIN _tasks =>
               <>(t \in DOMAIN _tasks /\ _tasks[t].finished_at # None))
    /\ [][\A t \in DOMAIN _tasks :
            (_tasks[t].finished_at = None /\ _tasks'[t].finished_at # None) =>
                (_current_task_id' = NoTask /\ ~StartRaises')]_vars

\* A batch an exception interrupted: finished, the guard free, and a second
\* batch accepted after it.
C5_Witness ==
    /\ 2 \in DOMAIN _tasks
    /\ _tasks[1].error # None /\ _tasks[1].finished_at # None
    /\ _tasks[2].status = PENDING /\ _current_task_id = 2

\* C6: at most one _register_one_sync is executing at any time, across all
\* batches.
C6_AttemptsNeverOverlap == Cardinality(executing) <= 1

\* An attempt is executing while another batch's attempt waits for the worker.
C6_Witness ==
    \E t \in executing :
        work_queue # <<>> /\ Head(work_queue) # t /\ RunningTasks = {t, Head(work_queue)}

\* Success exactly with a config and no error, failure exactly with an error
\* and no config.
WellFormed(r) ==
    /\ r.success <=> (r.config # None /\ r.error = None)
    /\ ~r.success <=> (r.config = None /\ r.error # None)

\* C7: every attempt appends exactly one result record to its task (a batch
\* that is over has one record per attempt it started), and every record
\* carries a credential or an error, never both.
C7_OneRecordPerAttempt ==
    \A t \in DOMAIN _tasks :
        LET task == _tasks[t] IN
        /\ coro[t] = "done" => Len(task.results) = task.progress
        /\ \A i \in 1..Len(task.results) : WellFormed(task.results[i])

\* C8: no exception of an attempt reaches the batch loop: no future of an
\* attempt completes with an exception, and no batch ends with an error that
\* cut its attempts short.
C8_NoExceptionReachesBatch ==
    \A t \in DOMAIN _tasks :
        /\ future[t].state # "exception"
        /\ Terminal(_tasks[t]) => _tasks[t].error = None

\* C9: when an attempt that started a browser session returns (on success,
\* on a step's failure or on an exception), driver.quit() has been called
\* exactly once; it is not called without a session; the finally clause
\* leaves the result as the return or except statement set it, also when
\* quit raises.
C9_TornDownOnce ==
    /\ [](att.pc \in {"return", "done"} =>
            /\ att.driver # "open"
            /\ att.driver # None => att.quits = 1
            /\ att.driver = None => att.quits = 0)
    /\ [][att.pc = "finally" =>
            (att'.pc = "return" /\ att'.result = att.result)]_vars

\* A successful attempt whose driver.quit() raised, its result delivered.
C9_Witness ==
    att.pc = "done" /\ att.driver = "quit_failed" /\ att.result.success

\* C10: every poll iteration of wait_for_workspace that observes a crash
\* sentinel calls _recover_from_crash and does not report the workspace as
\* reached.
C10_SentinelTriggersRecovery ==
    [][(w_pc = "observed" /\ observed = "sentinel") =>
          (recoveries' = recoveries + 1 /\ w_result' # "True")]_vars

\* C11: with max_crash_retries = k, a wait gives up because of repeated
\* crashes only after _recover_from_crash has been called k times, and it is
\* never called more than k times in one wait.
C11_RecoversKTimes ==
    /\ recoveries <= max_crash_retries
    /\ (w_pc = "done" /\ GivesUp(crash_count)) => recoveries = max_crash_retries

\* C12: extract_config_from_workspace is called at most max_retries times in
\* one extract_config_with_retry call, and a success result holds all four
\* required values (csesidx, config_id, the two cookie values), present and
\* non-empty.
C12_ExtractionBounded ==
    /\ ext.extracts <= max_retries
    /\ (ext.pc = "done" /\ ext.result.success) => ext.result.config = Fields

\* The third and last extraction succeeded after two that failed.
C12_Witness ==
    /\ ext.pc = "done" /\ ext.result.success
    /\ ext.extracts = max_retries /\ Len(ext.recorded) = 2

\* C17: a detected tab crash (a crash sentinel in the page, a crash-matching
\* error) is never answered with driver.refresh(): no refresh is issued in
\* answer to a crash during extraction-with-retry.
C17_NoRefreshOnCrash == ext.crash_refreshes = 0

\* C19: when all max_retries iterations pass without a successful
\* extraction, the call returns a failure whose error is the last value
\* assigned to last_error (iterations that only detected a crash assign
\* none), or the fixed generic message when none was assigned; the error is
\* never absent.
C19_ExhaustedReturnsLastError ==
    (ext.pc = "done" /\ ~ext.result.success) =>
        /\ ext.attempt = max_retries
        /\ ext.result.config = {}
        /\ ext.result.error # None
        /\ ext.result.error = IF ext.recorded = <<>> THEN ErrExtract
                              ELSE ext.recorded[Len(ext.recorded)]

\* Retries exhausted: two different errors were recorded, then an iteration
\* only detected a crash.
C19_Witness ==
    /\ ext.pc = "done" /\ ~ext.result.success
    /\ ext.recorded = <<ErrException, ErrIncomplete>>
    /\ ext.crash_refreshes = 1 /\ ext.refreshes = 3

\* C13: whenever _recover_from_crash returns true, exactly one tab is open
\* (every previously known tab has been closed), it is the new tab, it has
\* focus and shows target_url; also when closing a previously known tab
\* failed.
C13_OneTabAfterRecovery ==
    (rec.pc = "returned" /\ rec.ok) =>
        /\ handles = {rec.new}
        /\ handles \cap rec.original = {}
        /\ focus = rec.new
        /\ tab_url[rec.new] = "target_url"

\* The steps whose failure makes _recover_from_crash return false.
RecoveryFailed ==
    \/ rec.new = NoHandle
    \/ rec.raised \in {"window_handles", "window_open", "switch_new",
                       "switch_back", "get"}

\* C18: _recover_from_crash returns false if no new tab handle is identified
\* or if listing handles, opening the tab, switching to the new tab or
\* navigating raises, and true in every other case; a failure to switch to
\* or close a previously known tab never makes it return false.
C18_RecoveryResult ==
    rec.pc = "returned" => (rec.ok <=> ~RecoveryFailed)

\* Recovery returned true although both previously known tabs failed to
\* close.
C18_Witness ==
    /\ rec.pc = "returned" /\ rec.ok
    /\ rec.original = {1, 2} /\ rec.swallowed = {1, 2}

\* C14: the credential store is append-only: after every _save_config call
\* the entries that were in the store before it are still there, unchanged
\* and in order, followed by exactly one new entry; also when the existing
\* file cannot be read or parsed.
C14_StoreAppendOnly ==
    [][(att.pc = "save" /\ att'.result.success) =>
          /\ Len(accounts') = Len(accounts) + 1
          /\ SubSeq(accounts', 1, Len(accounts)) = accounts]_vars

\* The errors with which each step of the try block can end the attempt: the
\* ones it returns and the text of an exception it raises.
StepErrors ==
    [launch |-> {ErrException}, login |-> {ErrException},
     verify |-> {ErrCodeTimeout, ErrCodeInput, ErrException},
     name |-> {ErrNoNameField, ErrException},
     wait |-> {ErrNoWorkspace, ErrException},
     extract |-> {ErrIncomplete, ErrExtract, ErrException},
     save |-> {ErrException}]

\* The order of an attempt's steps: each step is followed by the next one, or
\* by the end of the attempt.
StepOrder ==
    {<<"import", "get_email">>, <<"import", "return">>,
     <<"get_email", "launch">>, <<"get_email", "return">>,
     <<"get_email", "raised">>,
     <<"launch", "login">>, <<"login", "verify">>, <<"verify", "name">>,
     <<"name", "wait">>, <<"wait", "extract">>, <<"extract", "save">>,
     <<"finally", "return">>, <<"return", "done">>}
    \cup {<<step, "finally">> : step \in DOMAIN StepErrors}

\* C20: the steps of an attempt run in the order mailbox address, email
\* verification, name entry, workspace wait, extraction, persistence; a
\* failure at a step ends the attempt with that step's error and no later
\* step runs; the store is written only by an attempt whose result is
\* success, and a success result's credential is in the store under the
\* attempt's email.
C20_StepsInOrder ==
    /\ [][att'.pc # att.pc => <<att.pc, att'.pc>> \in StepOrder]_vars
    /\ [][(att'.pc = "finally" /\ ~att'.result.success) =>
             /\ att'.result.error \in StepErrors[att.pc]
             /\ att'.result.email = att.email /\ att'.result.config = None
             /\ accounts' = accounts]_vars
    /\ [][accounts' # accounts => (att.pc = "save" /\ att'.result.success)]_vars
    /\ []((att.pc \in {"finally", "return", "done"} /\ att.result.success) =>
             /\ att.result.email = att.email /\ att.email # None
             /\ accounts # <<>>
             /\ accounts[Len(accounts)] = [id |-> att.email, data |-> "config_data"])

\* The verification code timed out: the attempt ended with that error, the
\* browser torn down, and the store as it was.
C20_Witness ==
    /\ att.pc = "done" /\ att.result.error = ErrCodeTimeout
    /\ att.email = Address /\ att.driver = "quit"
    /\ accounts = SavedAccounts(<<>>, Earlier)

\* C15: with either provider, get_verification_code(email, sender, timeout)
\* returns a code only from a mail addressed to email whose sender is
\* sender.
C15_CodeFromSenderOnly ==
    (mail.pc = "done" /\ mail.code # None) =>
        /\ mail.msg.address = Address
        /\ mail.msg.source = google_mail

\* C16: when no code is found, get_verification_code returns None within one
\* polling interval of `timeout` seconds after the call began, whatever the
\* latency and the failures of the inbox requests.
C16_TimeoutWithinOnePoll ==
    (mail.pc = "done" /\ mail.code = None) =>
        /\ mail.clock >= code_timeout - poll_interval
        /\ mail.clock <= code_timeout + poll_interval

\* pending, running, terminal
Rank(status) == CASE status = PENDING -> 0 [] status = RUNNING -> 1 [] OTHER -> 2

\* C22: a task's status only moves pending -> running -> (success | failed);
\* once terminal, the task (status, results, counters) never changes again;
\* and in every state between two scheduling points finished_at is set
\* exactly when the status is terminal.
C22_StatusLifecycle ==
    /\ [][\A t \in DOMAIN _tasks :
            /\ t \in DOMAIN _tasks'
            /\ Rank(_tasks'[t].status) >= Rank(_tasks[t].status)
            /\ Terminal(_tasks[t]) => _tasks'[t] = _tasks[t]]_vars
    /\ [](\A t \in DOMAIN _tasks :
            (_tasks[t].finished_at # None) <=> Terminal(_tasks[t]))

\* A batch has ended with a result while a later batch is running.
C22_Witness ==
    /\ 2 \in DOMAIN _tasks
    /\ Terminal(_tasks[1]) /\ Len(_tasks[1].results) >= 1
    /\ _tasks[1].finished_at # None
    /\ _tasks[2].status = RUNNING /\ Len(_tasks[2].results) >= 1

\* The call start_register would be rejected: the current task is running.
CurrentTaskRunning ==
    /\ _current_task_id \in DOMAIN _tasks
    /\ _tasks[_current_task_id].status = RUNNING

\* C24: a start_register call made while the current task is running changes
\* nothing: from such a state no step adds a task to the registry, makes
\* another task the current one, replaces the domain the running batch's
\* next attempts use, or schedules a coroutine.
C24_RejectedStartChangesNothing ==
    [][CurrentTaskRunning =>
         /\ DOMAIN _tasks' = DOMAIN _tasks
         /\ _current_task_id' \in {_current_task_id, NoTask}
         /\ _specified_domain' = _specified_domain
         /\ DOMAIN coro' = DOMAIN coro]_vars

\* A call is rejected that would be accepted but for the guard: the running
\* batch uses a domain, and room for another batch is left.
C24_Witness ==
    /\ CurrentTaskRunning
    /\ _specified_domain = "d1"
    /\ Cardinality(DOMAIN _tasks) < MaxTasks
    /\ Requested < MaxAttempts

\* C25: in every state between two scheduling points, for every task,
\* success_count + fail_count = len(results) <= progress <= count, and
\* progress exceeds len(results) by at most 1.
C25_CountersConsistent ==
    \A t \in DOMAIN _tasks :
        LET task == _tasks[t] IN
        /\ task.success_count + task.fail_count = Len(task.results)
        /\ Len(task.results) <= task.progress
        /\ task.progress <= task.count
        /\ task.progress <= Len(task.results) + 1

\* The third attempt of a batch is in flight, a success and a failure
\* recorded.
C25_Witness ==
    \E t \in DOMAIN _tasks :
        /\ _tasks[t].progress = 3 /\ Len(_tasks[t].results) = 2
        /\ _tasks[t].success_count = 1 /\ _tasks[t].fail_count = 1

\* C23: when the mailbox provider is not configured or create_email returns
\* None, the attempt returns the 'cannot create mailbox' failure at once: no
\* browser session is started, _get_email is not called again, nothing is
\* written to the store, and the caller gets a result (the batch goes on).
C23_NoMailboxFailsFast ==
    /\ [][(att.pc = "get_email" /\ att'.pc # "raised" /\ _mail_provider' = None) =>
             att' = ReturnEarly(att, ErrNoMailbox)]_vars
    /\ [][(att.pc = "get_email" /\ att'.pc \notin {"launch", "raised"}) =>
             /\ att' = ReturnEarly(att, ErrNoMailbox)
             /\ accounts' = accounts]_vars
    /\ [](att.result.error = ErrNoMailbox =>
             /\ att.pc \in {"return", "done"}
             /\ att.email = None /\ att.driver = None /\ att.quits = 0
             /\ ~att.result.success /\ att.result.config = None)
    /\ [][att.result.error = ErrNoMailbox =>
             /\ att'.pc = "done" /\ att'.result = att.result
             /\ accounts' = accounts]_vars

\* No provider is configured: the attempt has returned the failure, the
\* store still holding only the earlier account.
C23_Witness ==
    /\ att.pc = "done" /\ att.result.error = ErrNoMailbox
    /\ _mail_provider = None
    /\ accounts = SavedAccounts(<<>>, Earlier)

\* C21: the name-field locators are polled at most 30 times; a name is typed
\* and submitted only if a candidate field was found and is visible; and if
\* no candidate is visible in any of the 30 polls, the attempt fails with
\* the 'name field not found' error and does not reach the workspace wait.
C21_NameEntry ==
    /\ nm.polls <= name_polls
    /\ nm.typed => (nm.name_inp # None /\ nm.seen_visible)
    /\ (nm.pc = "done" /\ nm.polls = name_polls /\ ~nm.seen_visible) =>
          (nm.error = ErrNoNameField /\ nm.next # "wait")

\* C27: perform_email_verification reports success only if the code was
\* typed into one of the two code-input shapes and a verify control was
\* clicked, the one at the fixed path or a button carrying the label.
C27_VerifiedOnlyIfClicked ==
    (ver.pc = "done" /\ ver.result.success) =>
        /\ ver.typed \in {"pin", "span"}
        /\ ver.clicked \in {"fixed", "fallback"}

\* C26: provided every browser and mailbox call returns or raises, every
\* attempt terminates and every accepted batch reaches a terminal status:
\* the mailbox polling, the name-field polling, the workspace wait with its
\* recoveries, the extraction retries and the batch loop all come to an end.
C26_EverythingTerminates ==
    /\ \A t \in TaskIds :
          [](t \in DOMAIN _tasks => <>(t \in DOMAIN _tasks /\ Terminal(_tasks[t])))
    /\ (att.pc # "idle") ~> (att.pc \in {"done", "raised"})
    /\ (w_pc = "loop") ~> (w_pc = "done")
    /\ (rec.pc # "idle") ~> (rec.pc = "returned")
    /\ (ext.pc # "idle") ~> (ext.pc = "done")
    /\ (mail.pc # "idle") ~> (mail.pc = "done")
    /\ (ver.pc # "idle") ~> (ver.pc = "done")
    /\ (nm.pc # "idle") ~> (nm.pc = "done")

\* A workspace wait that recovered from two crashes and then polled to its
\* last iteration has ended.
C26_Witness ==
    /\ w_pc = "done" /\ w_iter = timeout
    /\ crash_count = 2 /\ recoveries = 2

====
